---- MODULE Spec2Model ----
(***************************************************************************)
(* ptr-utils: unaligned scalar reads and writes through raw pointers.      *)
(*                                                                         *)
(* The state is one caller-owned byte buffer, the build target (byte order *)
(* and pointer width), the fields the caller accesses and a record of the  *)
(* calls made so far.  The accessor itself keeps no state.  Scalars wider *)
(* than TLC's integers are kept as base-256 numerals (most significant     *)
(* digit first, no leading zero digit), with a sign for the signed types;  *)
(* their in-memory form is computed from the numeral by ToNeBytes and back *)
(* by FromNeBytes.                                                         *)
(***************************************************************************)
EXTENDS Integers, Sequences, FiniteSets, TLC

\* Length of the zeroed, mutable buffer: one byte more than the 16 bytes of
\* test_unaligned_access, so that the 16-byte scalars have an unaligned offset too.
BufLen == 17
\* Number of writes in one run (reads are not counted: they change no byte).
MaxWrites == 2

(***************************************************************************)
(* Scalar types and their sizes                                            *)
(***************************************************************************)
Unsigned == {"u8", "u16", "u32", "u64", "u128", "usize"}
Signed == {"i8", "i16", "i32", "i64", "i128", "isize"}
Floats == {"f32", "f64"}
Types == Unsigned \cup Signed \cup Floats \cup {"bool"}

\* Build targets: byte order of the native load/store and size of usize.
Targets == [endian : {"little", "big"}, ptrBytes : {4, 8}]

\* core::mem::size_of::<T>() on the target.
SizeOf(ty, tgt) ==
  CASE ty \in {"u8", "i8", "bool"} -> 1
    [] ty \in {"u16", "i16"} -> 2
    [] ty \in {"u32", "i32", "f32"} -> 4
    [] ty \in {"u64", "i64", "f64"} -> 8
    [] ty \in {"u128", "i128"} -> 16
    [] ty \in {"usize", "isize"} -> tgt.ptrBytes

(***************************************************************************)
(* Base-256 numerals                                                       *)
(***************************************************************************)
Reverse(s) == [i \in 1..Len(s) |-> s[Len(s) + 1 - i]]

Zeros(n) == [i \in 1..n |-> 0]

RECURSIVE Strip(_)
\* Drop leading zero digits.
Strip(s) == IF s = <<>> THEN <<>>
            ELSE IF s[1] = 0 THEN Strip(Tail(s)) ELSE s

\* Zero-extend a numeral to n digits (n >= Len(s)).
Pad(s, n) == Zeros(n - Len(s)) \o s

Invert(s) == [i \in 1..Len(s) |-> 255 - s[i]]

RECURSIVE IncLsb(_)
\* Add one to a numeral given least significant digit first, wrapping.
IncLsb(s) == IF s = <<>> THEN <<>>
             ELSE IF s[1] = 255 THEN <<0>> \o IncLsb(Tail(s))
             ELSE <<s[1] + 1>> \o Tail(s)

\* Two's complement negation of a fixed-width bit pattern (digits MSB first).
TwosNeg(s) == Reverse(IncLsb(Reverse(Invert(s))))

(***************************************************************************)
(* Values and their object representation                                  *)
(*   integer : [neg |-> BOOLEAN, mag |-> numeral of the magnitude]         *)
(*   float   : [neg |-> FALSE, mag |-> numeral of to_bits()]               *)
(*   bool    : TRUE / FALSE                                                *)
(***************************************************************************)
Pos(m) == [neg |-> FALSE, mag |-> Strip(m)]
Neg(m) == [neg |-> TRUE, mag |-> Strip(m)]

\* Mutant of BitsOf: true is stored as the byte FF.
BitsOfTrueAllOnes(ty, v, tgt) ==
  LET n == SizeOf(ty, tgt) IN
  IF ty = "bool" THEN (IF v THEN <<255>> ELSE <<0>>)
  ELSE IF v.neg THEN TwosNeg(Pad(v.mag, n))
  ELSE Pad(v.mag, n)

\* The bit pattern of a value, most significant byte first.
BitsOf(ty, v, tgt) ==
  LET n == SizeOf(ty, tgt) IN
  IF ty = "bool" THEN (IF v THEN <<1>> ELSE <<0>>)
  ELSE IF v.neg THEN TwosNeg(Pad(v.mag, n))
  ELSE Pad(v.mag, n)

\* The value a bit pattern (most significant byte first) stands for.
ValueOf(ty, bits) ==
  IF ty = "bool" THEN bits[1] = 1
  ELSE IF ty \in Signed /\ bits[1] >= 128 THEN Neg(TwosNeg(bits))
  ELSE Pos(bits)

\* Mutant of ToNeBytes: the bytes are stored most significant first on every target.
ToBeBytes(ty, v, tgt) == BitsOf(ty, v, tgt)

\* Object representation: the bytes of v in memory order on the target.
ToNeBytes(ty, v, tgt) ==
  IF tgt.endian = "little" THEN Reverse(BitsOf(ty, v, tgt)) ELSE BitsOf(ty, v, tgt)

\* Mutant of FromNeBytes: the bytes are taken most significant first on every target.
FromBeBytes(ty, bytes, tgt) == ValueOf(ty, bytes)

\* The value whose object representation is the given bytes.
FromNeBytes(ty, bytes, tgt) ==
  IF tgt.endian = "little" THEN ValueOf(ty, Reverse(bytes)) ELSE ValueOf(ty, bytes)

\* A byte sequence is a valid object representation of ty.
ValidRepr(ty, bytes) == ty = "bool" => bytes[1] \in {0, 1}

(***************************************************************************)
(* Raw pointers: [addr, pointee, kind].  Addresses count bytes from the    *)
(* start of the caller's buffer.                                           *)
(***************************************************************************)
\* `p as *const X` / `p as *mut X`: same address, new pointee type and kind.
CastPtr(p, ty, kind) == [addr |-> p.addr, pointee |-> ty, kind |-> kind]

\* `p.add(count)`: advance by count elements of the pointee type.
PtrAdd(p, count, tgt) == [p EXCEPT !.addr = p.addr + count * SizeOf(p.pointee, tgt)]

\* The size_of::<pointee>() bytes at p lie inside the buffer m.
InBounds(m, p, tgt) == p.addr \in DOMAIN m /\ p.addr + SizeOf(p.pointee, tgt) - 1 \in DOMAIN m

BytesAt(m, a, n) == [i \in 1..n |-> m[a + i - 1]]

\* Mutant of WriteUnaligned: the store is one byte too wide and zeroes the byte after the value.
WriteUnalignedWide(m, p, v, tgt) ==
  LET bytes == ToNeBytes(p.pointee, v, tgt) \o <<0>> IN
  [a \in DOMAIN m |->
     IF a >= p.addr /\ a < p.addr + SizeOf(p.pointee, tgt) + 1 THEN bytes[a - p.addr + 1] ELSE m[a]]

\* Mutant of WriteUnaligned: a torn store, only the first half of the bytes lands.
WriteUnalignedTorn(m, p, v, tgt) ==
  LET bytes == ToNeBytes(p.pointee, v, tgt) IN
  [a \in DOMAIN m |->
     IF a >= p.addr /\ a < p.addr + (SizeOf(p.pointee, tgt) + 1) \div 2
     THEN bytes[a - p.addr + 1] ELSE m[a]]

\* Mutant of WriteUnaligned: first write wins, a byte already set is not stored to.
WriteUnalignedOnce(m, p, v, tgt) ==
  LET bytes == ToNeBytes(p.pointee, v, tgt) IN
  [a \in DOMAIN m |->
     IF a >= p.addr /\ a < p.addr + SizeOf(p.pointee, tgt) /\ m[a] = 0
     THEN bytes[a - p.addr + 1] ELSE m[a]]

\* core::ptr::write_unaligned: copy the object representation of v to p.
WriteUnaligned(m, p, v, tgt) ==
  LET bytes == ToNeBytes(p.pointee, v, tgt) IN
  [a \in DOMAIN m |->
     IF a >= p.addr /\ a < p.addr + SizeOf(p.pointee, tgt) THEN bytes[a - p.addr + 1] ELSE m[a]]

\* core::ptr::read_unaligned: the pointee-typed value held by the bytes at p.
ReadUnaligned(m, p, tgt) ==
  FromNeBytes(p.pointee, BytesAt(m, p.addr, SizeOf(p.pointee, tgt)), tgt)

(***************************************************************************)
(* The accessor methods, one operator per impl block; ty names the method  *)
(* (write_<ty>_at, read_<ty>_at).                                          *)
(***************************************************************************)
\* Rounds a pointer down to the natural alignment of its pointee.
AlignDown(p, tgt) == [p EXCEPT !.addr = p.addr - (p.addr % SizeOf(p.pointee, tgt))]

\* Mutant of WritePtr: an aligned store, the address rounded down to T's alignment.
WritePtrAligned(self, ty, byte_offset, tgt) ==
  AlignDown(CastPtr(PtrAdd(CastPtr(self, "u8", "mut"), byte_offset, tgt), ty, "mut"), tgt)

\* Mutant of WritePtr: no cast to a byte pointer, so the offset counts pointee elements.
WritePtrScaled(self, ty, byte_offset, tgt) ==
  CastPtr(PtrAdd(self, byte_offset, tgt), ty, "mut")

\* impl<T> UnalignedWrite for *mut T: the pointer the store goes through.
WritePtr(self, ty, byte_offset, tgt) ==
  CastPtr(PtrAdd(CastPtr(self, "u8", "mut"), byte_offset, tgt), ty, "mut")

\* Mutant of ConstReadPtr: the load starts one byte late.
ConstReadPtrNext(self, ty, byte_offset, tgt) ==
  CastPtr(PtrAdd(CastPtr(self, "u8", "const"), byte_offset + 1, tgt), ty, "const")

\* impl<T> UnalignedRead for *const T: the pointer the load goes through.
ConstReadPtr(self, ty, byte_offset, tgt) ==
  CastPtr(PtrAdd(CastPtr(self, "u8", "const"), byte_offset, tgt), ty, "const")

\* Mutant of MutReadPtr: an aligned load, the address rounded down to T's alignment.
MutReadPtrAligned(self, ty, byte_offset, tgt) ==
  AlignDown(CastPtr(PtrAdd(CastPtr(self, "u8", "const"), byte_offset, tgt), ty, "const"), tgt)

\* Mutant of MutReadPtr: without the cast to a byte pointer, the offset counts pointees.
MutReadPtrScaled(self, ty, byte_offset, tgt) ==
  CastPtr(PtrAdd(self, byte_offset, tgt), ty, "const")

\* impl<T> UnalignedRead for *mut T: the pointer the load goes through.
MutReadPtr(self, ty, byte_offset, tgt) ==
  CastPtr(PtrAdd(CastPtr(self, "u8", "const"), byte_offset, tgt), ty, "const")

(***************************************************************************)
(* The caller: buffers, values and field layouts taken from the test suite *)
(***************************************************************************)
\* `[0u8; N]` with `as_mut_ptr()`.
ZeroBuffer == [a \in 0..(BufLen - 1) |-> 0]

\* test_const_pointers: an immutable array read through `as_ptr()`.
ConstBytes == <<\h12, \h34, \h56, \h78, \h9A, \hBC, \hDE, \hF0>>
ConstBuffer == [a \in 0..(Len(ConstBytes) - 1) |-> ConstBytes[a + 1]]

Buffers == {[bytes |-> ZeroBuffer, mutable |-> TRUE], [bytes |-> ConstBuffer, mutable |-> FALSE]}

\* Pointee types the caller's pointer is declared with (test_with_typed_pointers).
Pointees == {"u8", "u32", "u64"}

\* Values the caller writes, per scalar type.
Values(ty) ==
  CASE ty = "u8" -> {Pos(<<\h12>>), Pos(<<\hFF>>), Pos(<<0>>)}
    [] ty = "u16" -> {Pos(<<\h12, \h34>>), Pos(<<\hFF, \hEE>>)}
    [] ty = "u32" -> {Pos(<<\h12, \h34, \h56, \h78>>), Pos(<<\hFF, \hEE, \hDD, \hCC>>),
                      Pos(<<\h56, \h78, \h9A, \hBC>>)}
    [] ty = "u64" -> {Pos(<<\h9A, \hBC, \hDE, \hF0, \h12, \h34, \h56, \h78>>),
                      Pos(<<\hFF, \hEE, \hDD, \hCC, \hBB, \hAA, \h99, \h88>>)}
    [] ty = "u128" -> {Pos(<<\h12, \h34, \h56, \h78, \h9A, \hBC, \hDE, \hF0,
                             \hFE, \hDC, \hBA, \h09, \h87, \h65, \h43, \h21>>),
                       Pos(<<\hFF, \hEE, \hDD, \hCC, \hBB, \hAA, \h99, \h88,
                             \h77, \h66, \h55, \h44, \h33, \h22, \h11, \h00>>)}
    [] ty = "usize" -> {Pos(<<\h12, \h34, \h56, \h78>>), Pos(<<\hDE, \hAD, \hBE, \hEF>>)}
    [] ty = "i8" -> {Neg(<<12>>), Neg(<<128>>), Pos(<<127>>)}
    [] ty = "i16" -> {Neg(<<\h04, \hD2>>), Neg(<<\h80, \h00>>)}
    [] ty = "i32" -> {Neg(<<\hBC, \h61, \h4E>>), Neg(<<\h80, \h00, \h00, \h00>>),
                      Pos(<<\h7F, \hFF, \hFF, \hFF>>)}
    [] ty = "i64" -> {Neg(<<\h01, \hB6, \h9B, \h4B, \hA6, \h30, \hF3, \h4E>>),
                      Neg(<<\h80, \h00, \h00, \h00, \h00, \h00, \h00, \h00>>)}
    [] ty = "i128" -> {Neg(<<\h09, \h49, \hB0, \hF6, \hF0, \h02, \h33, \h13,
                             \hC4, \h49, \h90, \h50, \hDE, \h38, \hF3, \h4E>>),
                       Neg(<<\h80, \h00, \h00, \h00, \h00, \h00, \h00, \h00,
                             \h00, \h00, \h00, \h00, \h00, \h00, \h00, \h00>>)}
    [] ty = "isize" -> {Neg(<<\hBC, \h61, \h4E>>), Neg(<<\h49, \h96, \h02, \hD2>>)}
    [] ty = "f32" -> {Pos(<<\h40, \h49, \h0F, \hDB>>), Pos(<<\h7F, \hC0, \h00, \h00>>),
                      Pos(<<\hFF, \h80, \h00, \h00>>)}
    [] ty = "f64" -> {Pos(<<\h40, \h05, \hBF, \h0A, \h8B, \h14, \h57, \h69>>),
                      Pos(<<\h7F, \hF8, \h00, \h00, \h00, \h00, \h00, \h00>>)}
    [] ty = "bool" -> {TRUE, FALSE}

Field(ty, off) == [ty |-> ty, off |-> off]

\* Every field that fits a buffer of n bytes.
AllFields(n, tgt) ==
  {f \in [ty : Types, off : 0..(n - 1)] : f.off + SizeOf(f.ty, tgt) <= n}

\* Fields the tests (and the spec's scenarios) use together in one buffer,
\* and two overlapping pairs.
TestLayouts ==
  { {Field("u32", 1), Field("u64", 5)},    \* test_unaligned_access
    {Field("u32", 0), Field("u32", 4)},    \* adjacent fields at 0 and 4
    {Field("u16", 0), Field("u32", 4)},    \* test_with_typed_pointers
    {Field("bool", 0), Field("bool", 1)},  \* test_boolean
    {Field("u8", 0), Field("u16", 1)},     \* test_unsigned_integers
    {Field("i32", 4), Field("i64", 8)},    \* test_signed_integers
    {Field("f32", 0), Field("f64", 8)},    \* test_floating_point
    {Field("u32", 1), Field("u16", 2)},
    {Field("bool", 0), Field("u8", 0)} }

\* What one run accesses: any single field, or one of the tests' layouts.
Layouts(n, tgt) ==
  {{f} : f \in AllFields(n, tgt)}
    \cup {L \in TestLayouts : L \subseteq AllFields(n, tgt)}

\* The byte ranges of two fields share no byte.
Disjoint(f, g, tgt) ==
  f.off + SizeOf(f.ty, tgt) <= g.off \/ g.off + SizeOf(g.ty, tgt) <= f.off

(***************************************************************************)
(* State                                                                   *)
(***************************************************************************)
VARIABLES
  target,   \* the build target
  mem,      \* the buffer: address -> byte
  mutable,  \* the buffer is a `let mut` binding, so a *mut handle exists
  fields,   \* the fields this run accesses
  hist,     \* the writes made so far, oldest first
  last,     \* the last call and what it returned
  ub        \* a call had undefined behaviour

vars == <<target, mem, mutable, fields, hist, last, ub>>

NoCall == [op |-> "none", kind |-> "none", pointee |-> "none", ty |-> "none",
           off |-> 0, addr |-> 0, val |-> FALSE]

Init ==
  /\ target \in Targets
  /\ \E b \in Buffers :
       /\ mem = b.bytes
       /\ mutable = b.mutable
       /\ fields \in Layouts(Cardinality(DOMAIN b.bytes), target)
  /\ hist = <<>>
  /\ last = NoCall
  /\ ub = FALSE

\* The handle the caller holds: the buffer's start, declared with some pointee type.
Handle(pointee, kind) == [addr |-> 0, pointee |-> pointee, kind |-> kind]

(***************************************************************************)
(* Actions: one per capability and handle variant                          *)
(***************************************************************************)
Call(op, self, f, p, v) ==
  [op |-> op, kind |-> self.kind, pointee |-> self.pointee, ty |-> f.ty,
   off |-> f.off, addr |-> p.addr, val |-> v]

\* Mutant of WriteAt: the store is bounds-checked and skipped when out of range.
WriteAtChecked(self, f, v) ==
  LET p == WritePtr(self, f.ty, f.off, target) IN
  IF InBounds(mem, p, target)
  THEN /\ mem' = WriteUnaligned(mem, p, v, target)
       /\ hist' = Append(hist, [ty |-> f.ty, off |-> f.off, val |-> v])
       /\ last' = Call("write", self, f, p, v)
       /\ ub' = ub
  ELSE /\ last' = Call("write", self, f, p, v)
       /\ UNCHANGED <<mem, hist, ub>>

\* self.write_<ty>_at(byte_offset, value) on a *mut handle.
WriteAt(self, f, v) ==
  LET p == WritePtr(self, f.ty, f.off, target) IN
  IF InBounds(mem, p, target)
  THEN /\ mem' = WriteUnaligned(mem, p, v, target)
       /\ hist' = Append(hist, [ty |-> f.ty, off |-> f.off, val |-> v])
       /\ last' = Call("write", self, f, p, v)
       /\ ub' = ub
  ELSE \* a store outside the buffer: undefined behaviour; the part of it
       \* that falls inside the buffer may or may not land
       /\ ub' = TRUE
       /\ last' = Call("write", self, f, p, v)
       /\ mem' \in {mem, WriteUnaligned(mem, p, v, target)}
       /\ UNCHANGED hist

\* The load both read impls end in; p is the pointer the impl computed.
Load(self, f, p) ==
  IF InBounds(mem, p, target)
  THEN LET bytes == BytesAt(mem, p.addr, SizeOf(p.pointee, target)) IN
       IF ValidRepr(p.pointee, bytes)
       THEN /\ last' = Call("read", self, f, p, ReadUnaligned(mem, p, target))
            /\ ub' = ub
       ELSE \* a bool read of a byte other than 0 or 1: undefined behaviour
            /\ \E r \in BOOLEAN : last' = Call("read", self, f, p, r)
            /\ ub' = TRUE
  ELSE \* a load outside the buffer: undefined behaviour, any value of the type
       /\ \E r \in Values(p.pointee) : last' = Call("read", self, f, p, r)
       /\ ub' = TRUE

\* Mutant of Write: the write capability is also implemented for *const handles.
WriteAnyHandle ==
  /\ ~ub
  /\ Len(hist) < MaxWrites
  /\ \E f \in fields, pointee \in Pointees, kind \in {"const", "mut"} :
       /\ kind = "mut" => mutable
       /\ \E v \in Values(f.ty) : WriteAt(Handle(pointee, kind), f, v)
  /\ UNCHANGED <<target, mutable, fields>>

\* self.write_<ty>_at(byte_offset, value): implemented for *mut handles only.
Write ==
  /\ ~ub
  /\ mutable
  /\ Len(hist) < MaxWrites
  /\ \E f \in fields, pointee \in Pointees :
       \E v \in Values(f.ty) : WriteAt(Handle(pointee, "mut"), f, v)
  /\ UNCHANGED <<target, mutable, fields>>

\* self.read_<ty>_at(byte_offset) on a *const handle.
ReadConst ==
  /\ ~ub
  /\ \E f \in fields, pointee \in Pointees :
       LET self == Handle(pointee, "const") IN
       Load(self, f, ConstReadPtr(self, f.ty, f.off, target))
  /\ UNCHANGED <<target, mem, mutable, fields, hist>>

\* Mutant of ReadMut: the read consumes the field, zeroing the bytes it loaded.
ReadMutClearing ==
  /\ ~ub
  /\ mutable
  /\ \E f \in fields, pointee \in Pointees :
       LET self == Handle(pointee, "mut") IN
       /\ Load(self, f, MutReadPtr(self, f.ty, f.off, target))
       /\ mem' = [a \in DOMAIN mem |->
                    IF a >= f.off /\ a < f.off + SizeOf(f.ty, target) THEN 0 ELSE mem[a]]
  /\ UNCHANGED <<target, mutable, fields, hist>>

\* self.read_<ty>_at(byte_offset) on a *mut handle.
ReadMut ==
  /\ ~ub
  /\ mutable
  /\ \E f \in fields, pointee \in Pointees :
       LET self == Handle(pointee, "mut") IN
       Load(self, f, MutReadPtr(self, f.ty, f.off, target))
  /\ UNCHANGED <<target, mem, mutable, fields, hist>>

Next == Write \/ ReadConst \/ ReadMut

Spec == Init /\ [][Next]_vars

(***************************************************************************)
(* A caller that breaks the range precondition: the offset is past the     *)
(* last offset at which the scalar still fits the buffer.  The calls go    *)
(* through the byte handle to the buffer, as in the tests.                 *)
(***************************************************************************)
BufferLen == Cardinality(DOMAIN mem)

\* Offsets at which a ty straddles the end of the buffer or starts right after it.
PastEnd(ty) == {BufferLen - SizeOf(ty, target) + 1, BufferLen}

WriteOutOfRange ==
  /\ ~ub
  /\ mutable
  /\ \E f \in fields :
       \E o \in PastEnd(f.ty), v \in Values(f.ty) : WriteAt(Handle("u8", "mut"), Field(f.ty, o), v)
  /\ UNCHANGED <<target, mutable, fields>>

ReadOutOfRange ==
  /\ ~ub
  /\ \E f \in fields, kind \in {"const", "mut"} : \E o \in PastEnd(f.ty) :
       /\ kind = "mut" => mutable
       /\ LET self == Handle("u8", kind)
              g == Field(f.ty, o)
          IN Load(self, g, IF kind = "const" THEN ConstReadPtr(self, g.ty, g.off, target)
                           ELSE MutReadPtr(self, g.ty, g.off, target))
  /\ UNCHANGED <<target, mem, mutable, fields, hist>>

NextUnchecked == Next \/ WriteOutOfRange \/ ReadOutOfRange

\* The callers of the test suite: two scalars in one buffer.
InitUnchecked == Init /\ fields \in TestLayouts

SpecUnchecked == InitUnchecked /\ [][NextUnchecked]_vars

(***************************************************************************)
(* Observations used by the properties below                               *)
(***************************************************************************)
\* The write the last element of hist records, when there is one.
LastWrite == hist[Len(hist)]

\* A call was made and met its preconditions.
Returned(op) == last.op = op /\ ~ub

SizeOfLast == SizeOf(last.ty, target)

\* The step just taken was a write of the field `last` names.
WriteStep == Len(hist') = Len(hist) + 1

\* C1: a write_T_at(a, o, v) followed by read_T_at(a, o), with no write in
\* between, returns v: for every scalar type, every in-range offset (aligned
\* or not) and every value, on either handle variant.
C1_RoundTrip ==
  (last.op = "read" /\ hist # <<>> /\ LastWrite.ty = last.ty /\ LastWrite.off = last.off)
    => (~ub /\ last.val = LastWrite.val)

C1_Witness ==
  /\ last.op = "read"
  /\ last.ty = "i64"
  /\ last.off = 3
  /\ hist = <<[ty |-> "i64", off |-> 3,
               val |-> Neg(<<\h80, \h00, \h00, \h00, \h00, \h00, \h00, \h00>>)]>>
  /\ last.val = LastWrite.val

\* C2: a write changes no byte outside [o, o + sizeof(T)): every byte below o
\* or at or above o + sizeof(T) is the same after the write as before it.
C2_WriteFrame ==
  [][WriteStep =>
       \A a \in DOMAIN mem :
         (a < last'.off \/ a >= last'.off + SizeOf(last'.ty, target)) => mem'[a] = mem[a]]_vars

C2_Witness ==
  /\ Returned("write")
  /\ last.ty = "u32"
  /\ last.off = 1
  /\ Len(hist) = 2
  /\ mem[0] = 0
  /\ mem[5] # 0
  /\ mem[12] # 0

\* C3: after write_T_at(a, o, v) the sizeof(T) bytes at [o, o + sizeof(T))
\* are v's bytes in the target's native order: least significant byte first
\* on a little-endian target, most significant first on a big-endian one.
C3_WritePost ==
  last.op = "write" =>
    /\ ~ub
    /\ BytesAt(mem, last.off, SizeOfLast) =
         (IF target.endian = "little"
          THEN Reverse(BitsOf(last.ty, last.val, target))
          ELSE BitsOf(last.ty, last.val, target))

C3_Witness ==
  /\ Returned("write")
  /\ last.ty = "u32"
  /\ last.off = 5
  /\ target.endian = "little"
  /\ BytesAt(mem, 5, 4) = <<\h78, \h56, \h34, \h12>>

ConstRead(ty) ==
  /\ Returned("read")
  /\ last.kind = "const"
  /\ ~mutable
  /\ mem = ConstBuffer
  /\ last.ty = ty
  /\ last.off = 0

LeU16 == Pos(<<\h34, \h12>>)
LeU32 == Pos(<<\h78, \h56, \h34, \h12>>)
LeU64 == Pos(<<\hF0, \hDE, \hBC, \h9A, \h78, \h56, \h34, \h12>>)

C6_ReadPure ==
  [][last'.op = "read" =>
       /\ mem' = mem
       /\ (last.op = "read" /\ last.ty = last'.ty /\ last.off = last'.off /\ ~ub')
            => last'.val = last.val]_vars

C6_Witness ==
  /\ Returned("read")
  /\ last.kind = "mut"
  /\ hist # <<>>
  /\ last.val = LastWrite.val
  /\ \E a \in DOMAIN mem : mem[a] # 0

\* The value a read of field f returns in the current state.
ReadField(f) ==
  ReadUnaligned(mem, MutReadPtr(Handle("u8", "mut"), f.ty, f.off, target), target)

\* No write after the i-th touched a byte of the i-th write's range.
Intact(i) == \A j \in (i + 1)..Len(hist) : Disjoint(hist[i], hist[j], target)

\* C7: a field written earlier still reads back its written value as long as
\* every later write went to a range disjoint from it, adjacent ranges
\* included.
C7_NoAliasing ==
  \A i \in 1..Len(hist) :
    Intact(i) =>
      /\ ReadField(hist[i]) = hist[i].val
      /\ (last.op = "read" /\ last.ty = hist[i].ty /\ last.off = hist[i].off)
           => (~ub /\ last.val = hist[i].val)

C7_Witness ==
  /\ Len(hist) = 2
  /\ hist[1].ty = "u32" /\ hist[1].off = 0
  /\ hist[2].ty = "u32" /\ hist[2].off = 4
  /\ hist[1].val = Pos(<<\h12, \h34, \h56, \h78>>)
  /\ Returned("read")
  /\ last.ty = "u32" /\ last.off = 0
  /\ last.val = hist[1].val

\* C8: the offset counts bytes whatever the handle's pointee type: every
\* call accesses exactly the bytes [o, o + sizeof(T)) from the handle's
\* address, never o * sizeof(P) or o * sizeof(T).
C8_ByteOffset ==
  last.op # "none" =>
    /\ last.addr = last.off
    /\ last.op = "write" =>
         (~ub /\ BytesAt(mem, last.off, SizeOfLast) = ToNeBytes(last.ty, last.val, target))
    /\ Returned("read") =>
         last.val = FromNeBytes(last.ty, BytesAt(mem, last.off, SizeOfLast), target)
    /\ ub => (last.op = "read" /\ last.ty = "bool")

C8_Witness ==
  /\ Returned("write")
  /\ last.pointee = "u64"
  /\ last.ty = "u16"
  /\ last.off = 3
  /\ last.addr = 3
  /\ mem[3] # 0 /\ mem[4] # 0 /\ mem[5] = 0 /\ mem[6] = 0

\* C9 (state part): a bool write stores the byte 1 for true and 0 for false;
\* a bool read returns true for the byte 1 and false for the byte 0, and is
\* undefined behaviour for any other byte.
C9_BoolState ==
  /\ (last.op = "write" /\ last.ty = "bool") =>
       (~ub /\ mem[last.off] = (IF last.val THEN 1 ELSE 0))
  /\ (last.op = "read" /\ last.ty = "bool") =>
       IF mem[last.off] \in {0, 1} THEN ~ub /\ last.val = (mem[last.off] = 1) ELSE ub

\* C9: the boolean encoding above, and a bool write touches exactly one byte.
C9_BoolEncoding ==
  /\ []C9_BoolState
  /\ [][(WriteStep /\ last'.ty = "bool") =>
          \A a \in DOMAIN mem : a # last'.off => mem'[a] = mem[a]]_vars

C9_Witness ==
  /\ Len(hist) = 2
  /\ hist[1] = [ty |-> "bool", off |-> 0, val |-> TRUE]
  /\ hist[2] = [ty |-> "bool", off |-> 1, val |-> FALSE]
  /\ mem[0] = 1 /\ mem[1] = 0
  /\ Returned("read")
  /\ last.ty = "bool" /\ last.off = 0 /\ last.val = TRUE

\* A bool read of a byte that is neither 0 nor 1 was made (and may return true).
C9_UndefinedReached ==
  /\ ub
  /\ last.op = "read" /\ last.ty = "bool"
  /\ mem[last.off] = \h12
  /\ last.val = TRUE

U32Scenario == [ty |-> "u32", off |-> 1, val |-> Pos(<<\h12, \h34, \h56, \h78>>)]
U64Scenario == [ty |-> "u64", off |-> 5,
                val |-> Pos(<<\h9A, \hBC, \hDE, \hF0, \h12, \h34, \h56, \h78>>)]

\* C10: from a zeroed buffer, after write_u32_at(1, 0x12345678) and then
\* write_u64_at(5, 0x9ABCDEF012345678), read_u32_at(1) returns 0x12345678,
\* read_u64_at(5) returns 0x9ABCDEF012345678, and bytes 0, 13, 14 and 15
\* are still zero.
C10_UnalignedScenario ==
  hist = <<U32Scenario, U64Scenario>> =>
    /\ ReadField(U32Scenario) = U32Scenario.val
    /\ ReadField(U64Scenario) = U64Scenario.val
    /\ (last.op = "read" /\ last.ty = "u32" /\ last.off = 1) => last.val = U32Scenario.val
    /\ (last.op = "read" /\ last.ty = "u64" /\ last.off = 5) => last.val = U64Scenario.val
    /\ mem[0] = 0 /\ mem[13] = 0 /\ mem[14] = 0 /\ mem[15] = 0
    /\ ~ub

C10_Witness ==
  /\ hist = <<U32Scenario, U64Scenario>>
  /\ Returned("read")
  /\ last.ty = "u64" /\ last.off = 5
  /\ last.val = U64Scenario.val
  /\ mem[1] # 0 /\ mem[12] # 0

\* C11: only *mut handles have the write capability: every write went through
\* a *mut handle, a call through a *const handle is a read and changes no
\* byte, and a buffer reachable only through a *const handle never changes.
C11_WritePermission ==
  /\ [](last.op = "write" => last.kind = "mut")
  /\ [](~mutable => mem = ConstBuffer)
  /\ [][last'.kind = "const" => (last'.op = "read" /\ mem' = mem)]_vars

C11_Witness ==
  /\ ~mutable
  /\ Returned("read")
  /\ last.kind = "const"
  /\ last.ty = "u64"
  /\ last.off = 0
  /\ mem = ConstBuffer

\* The last call's byte range does not lie inside the buffer.
OutOfRangeCall == last.op # "none" /\ last.off + SizeOfLast > BufferLen

\* The last call was a bool read of a byte that is neither 0 nor 1.
InvalidBoolRead ==
  /\ last.op = "read" /\ last.ty = "bool"
  /\ ~OutOfRangeCall
  /\ mem[last.off] \notin {0, 1}

\* v has the shape of a value of type ty: never an error or an absent value.
PlainValue(ty, v) ==
  IF ty = "bool" THEN v \in BOOLEAN
  ELSE /\ v.neg \in BOOLEAN
       /\ v.neg => ty \in Signed
       /\ Len(v.mag) <= SizeOf(ty, target)

\* C12: no call reports a failure or tests its offset: every read returns a
\* plain value of its type, the address used is the handle's address plus the
\* offset whatever the offset is, a call whose range lies outside the buffer
\* is carried out as undefined behaviour rather than detected, and nothing
\* but a broken precondition makes a call undefined.
C12_NoRuntimeCheck ==
  last.op # "none" =>
    /\ PlainValue(last.ty, last.val)
    /\ last.addr = last.off
    /\ OutOfRangeCall => ub
    /\ ub => (OutOfRangeCall \/ InvalidBoolRead)

C12_Witness ==
  /\ ub
  /\ OutOfRangeCall
  /\ last.op = "write"
  /\ last.ty = "u32"
  /\ last.off = BufferLen - 3
  /\ mem[BufferLen - 1] # 0

\* An out-of-range read was made and returned a value.
C12_ReadReached ==
  /\ ub
  /\ OutOfRangeCall
  /\ last.op = "read"
  /\ last.kind = "const"
  /\ last.ty = "u64"
  /\ last.off = BufferLen

\* The buffer m with all sizeof(ty) bytes of v's representation at offset off.
Stored(m, ty, off, v) ==
  [a \in DOMAIN m |->
     IF a >= off /\ a < off + SizeOf(ty, target)
     THEN ToNeBytes(ty, v, target)[a - off + 1] ELSE m[a]]

\* C13: a call is one step with no intermediate state: whatever follows a
\* write sees all sizeof(T) bytes of it, every step leaves the buffer as it was
\* or applies the whole of one write, and a call's outcome is a function of
\* the buffer bytes before it and its arguments alone (no state of the
\* accessor, no earlier call, takes part).
C13_SingleStep ==
  /\ [](hist # <<>> =>
          BytesAt(mem, LastWrite.off, SizeOf(LastWrite.ty, target))
            = ToNeBytes(LastWrite.ty, LastWrite.val, target))
  /\ [][\/ mem' = mem
        \/ /\ last'.op = "write"
           /\ mem' = Stored(mem, last'.ty, last'.off, last'.val)]_vars
  /\ [][(last'.op = "read" /\ ~ub') =>
          /\ mem' = mem
          /\ last'.val =
               FromNeBytes(last'.ty, BytesAt(mem, last'.off, SizeOf(last'.ty, target)), target)]_vars

C13_Witness ==
  /\ Returned("read")
  /\ Len(hist) = 1
  /\ LastWrite.ty = "u128" /\ LastWrite.off = 1
  /\ last.ty = "u128" /\ last.off = 1
  /\ last.val = LastWrite.val
  /\ mem[0] = 0
  /\ \A a \in 1..16 : mem[a] # 0

\* The buffer after the writes of h, in order, on the buffer m.
RECURSIVE Replay(_, _)
Replay(h, m) ==
  IF h = <<>> THEN m
  ELSE Replay(Tail(h),
              WriteUnaligned(m, WritePtr(Handle("u8", "mut"), Head(h).ty, Head(h).off, target),
                             Head(h).val, target))

\* h with its i-th and (i+1)-th writes in the other order.
Swap(h, i) == [h EXCEPT ![i] = h[i + 1], ![i + 1] = h[i]]

Covering(a) ==
  {i \in 1..Len(hist) : hist[i].off <= a /\ a < hist[i].off + SizeOf(hist[i].ty, target)}

Latest(S) == CHOOSE i \in S : \A j \in S : j <= i

\* The byte at a before the first call.
InitialByte(a) == IF mutable THEN ZeroBuffer[a] ELSE ConstBuffer[a]

\* The byte the most recent write covering a put there, else the initial byte.
LastWritten(a) ==
  IF Covering(a) = {} THEN InitialByte(a)
  ELSE LET w == hist[Latest(Covering(a))]
       IN ToNeBytes(w.ty, w.val, target)[a - w.off + 1]

\* C15: last write wins per byte: every byte of the buffer is the byte of the
\* most recent write whose range covered it, or the initial byte if none did,
\* and a read returns the value of those bytes, so a field partly overwritten
\* by a later write reads as the mix of old and new bytes.
C15_LastWriteWins ==
  /\ \A a \in DOMAIN mem : mem[a] = LastWritten(a)
  /\ Returned("read") =>
       last.val = FromNeBytes(last.ty, [i \in 1..SizeOfLast |-> LastWritten(last.off + i - 1)],
                              target)

C15_Witness ==
  /\ Returned("read")
  /\ Len(hist) = 2
  /\ hist[1].ty = "u32" /\ hist[1].off = 1
  /\ hist[2].ty = "u16" /\ hist[2].off = 2
  /\ last.ty = "u32" /\ last.off = 1
  /\ last.val # hist[1].val
  /\ mem[1] # 0 /\ mem[4] # 0

\* What read_<ty>_at returns through a *const and through a *mut handle.
ViaConst(pointee, f) ==
  ReadUnaligned(mem, ConstReadPtr(Handle(pointee, "const"), f.ty, f.off, target), target)

ViaMut(pointee, f) ==
  ReadUnaligned(mem, MutReadPtr(Handle(pointee, "mut"), f.ty, f.off, target), target)

\* C16: a read through a *const handle and a read through a *mut handle to the
\* same address load from the same address and return the same value for
\* every type, offset and buffer contents; a read made through either variant
\* returns what the other variant gives, and neither changes the buffer.
C16_ReadVariantsAgree ==
  /\ [](\A f \in fields, pointee \in Pointees :
          /\ ConstReadPtr(Handle(pointee, "const"), f.ty, f.off, target).addr
               = MutReadPtr(Handle(pointee, "mut"), f.ty, f.off, target).addr
          /\ ViaConst(pointee, f) = ViaMut(pointee, f))
  /\ [](Returned("read") =>
          /\ last.val = ViaConst(last.pointee, Field(last.ty, last.off))
          /\ last.val = ViaMut(last.pointee, Field(last.ty, last.off)))
  /\ [][last'.op = "read" => mem' = mem]_vars

C16_Witness ==
  /\ Returned("read")
  /\ last.kind = "mut"
  /\ last.pointee = "u32"
  /\ last.ty = "u64" /\ last.off = 5
  /\ Len(hist) = 2
  /\ last.val = LastWrite.val
  /\ last.val = ViaConst("u32", Field("u64", 5))

\* The same read made through the *const handle.
C16_ConstReached ==
  /\ Returned("read")
  /\ last.kind = "const"
  /\ mutable
  /\ last.pointee = "u32"
  /\ last.ty = "u64" /\ last.off = 5
  /\ Len(hist) = 2
  /\ last.val = LastWrite.val

====
